---- MODULE Spec2Model ----
(***************************************************************************)
(* Model of the two sheet reconcilers of the repository:                   *)
(*   backend/generate_slugs.py  (URL mode:    Name, Slug, Pass URL)        *)
(*   backend/index.py           (status mode: name, slug, status)          *)
(* A string is a sequence of one-character strings, so that strip(),       *)
(* lower(), the regular-expression substitutions and concatenation are     *)
(* computed character by character as Python computes them.                *)
(***************************************************************************)
EXTENDS Integers, Sequences, FiniteSets, TLC

VARIABLES
    mode,           \* "url": generate_slugs.py runs; "status": index.py runs
    dry_run,        \* the dry_run argument of process_students
    data,           \* "rich" or "poor": what the data cells are drawn from;
                    \* "stored": the data rows are those of grid
    grid_rows,      \* len(all_values): rows of the fetched grid, header included
    sheet_header,   \* row 1 of the remote sheet
    grid,           \* the data rows of the remote sheet, when data = "stored"
    prior_runs,     \* what the earlier runs on this sheet returned and wrote
    pc,             \* position of process_students
    headers,        \* the local list headers = all_values[0]
    name_col, slug_col, sec_col,   \* 1-based bindings, 0 for None
    row_idx,        \* 1-based sheet row of the row last taken by the loop
    row,            \* the row the loop body holds, << >> between two bodies
    processed, updated, errors, results,
    header_writes,  \* number of sheet.update('A1', [headers]) calls that succeeded
    cell_writes,    \* number of sheet.update_cell calls that succeeded
    row_writes,     \* the update_cell calls that succeeded in this loop body
    row_pending,    \* the cells the body found to differ, in the order visited
    row_failed,     \* TRUE when an update_cell call raised in this body
    summary,        \* the returned dictionary, or NoSummary
    slug_in, slug_gs, slug_idx,    \* input and outputs of the two generate_slug
    slug_gs_again, slug_idx_again  \* each generate_slug applied to its own output

vars == << mode, dry_run, data, grid_rows, sheet_header, grid, prior_runs,
           pc, headers,
           name_col, slug_col, sec_col, row_idx, row, processed, updated,
           errors, results, header_writes, cell_writes, row_writes,
           row_pending, row_failed, summary, slug_in, slug_gs, slug_idx,
           slug_gs_again, slug_idx_again >>

-----------------------------------------------------------------------------
(* Bounds *)
MaxRows == 2      \* data rows of the grid
MaxCols == 3      \* header cells, in the specification of column resolution
MaxLen == 4       \* characters of a name given to generate_slug

-----------------------------------------------------------------------------
(* Characters and the str methods the code uses *)

UpperLetters == << "A","B","C","D","E","F","G","H","I","J","K","L","M",
                   "N","O","P","Q","R","S","T","U","V","W","X","Y","Z" >>
LowerLetters == << "a","b","c","d","e","f","g","h","i","j","k","l","m",
                   "n","o","p","q","r","s","t","u","v","w","x","y","z" >>
Digits == {"0","1","2","3","4","5","6","7","8","9"}
Whitespace == {" ", "\t", "\n", "\r"}

Range(s) == { s[i] : i \in 1..Len(s) }

\* [a-z0-9\-], and the ASCII letters and digits among them
SlugCharSet == Range(LowerLetters) \cup Digits \cup {"-"}
AlnumSet == Range(LowerLetters) \cup Digits
IsSlugChar(c) == c \in SlugCharSet

\* str.lower(), one character
LowerOf == [ c \in Range(UpperLetters) |->
               LowerLetters[CHOOSE i \in 1..26 : UpperLetters[i] = c] ]
LowerChar(c) == IF c \in DOMAIN LowerOf THEN LowerOf[c] ELSE c

\* str.lower()
Lower(s) == [ i \in 1..Len(s) |-> LowerChar(s[i]) ]

RECURSIVE LStripSet(_, _)
LStripSet(s, cs) ==
    IF s # << >> /\ Head(s) \in cs THEN LStripSet(Tail(s), cs) ELSE s

RECURSIVE RStripSet(_, _)
RStripSet(s, cs) ==
    IF s # << >> /\ s[Len(s)] \in cs
    THEN RStripSet(SubSeq(s, 1, Len(s) - 1), cs) ELSE s

\* str.strip(chars)
StripSet(s, cs) == RStripSet(LStripSet(s, cs), cs)

\* str.strip()
Strip(s) == StripSet(s, Whitespace)

\* str.replace(old, new) for one-character old and new
Replace(s, old, new) == [ i \in 1..Len(s) |-> IF s[i] = old THEN new ELSE s[i] ]

\* re.sub(r'[cs]+', rep, s): every maximal run of characters of cs becomes rep
RECURSIVE SubRuns(_, _, _)
SubRuns(s, cs, rep) ==
    IF s = << >> THEN << >>
    ELSE IF Head(s) \in cs
         THEN << rep >> \o SubRuns(LStripSet(s, cs), cs, rep)
         ELSE << Head(s) >> \o SubRuns(Tail(s), cs, rep)

\* re.sub(r'[^a-z0-9\-]', '', s)
KeepSlugChars(s) == SelectSeq(s, IsSlugChar)

-----------------------------------------------------------------------------
(* generate_slug, in its two versions *)

\* Faulty variant: generate_slugs.py without re.sub(r'-+', '-', slug)
GS_generate_slug_NoHyphenCollapse(name) ==
    LET s1 == Strip(Lower(name))
        s2 == Replace(s1, " ", "-")
        s3 == KeepSlugChars(s2)
    IN  StripSet(s3, {"-"})

\* Faulty variant: generate_slugs.py with strip('-') applied before the filter
\* re.sub(r'[^a-z0-9\-]', '', slug) and the collapse of hyphens
GS_generate_slug_StripBeforeFilter(name) ==
    LET s1 == Strip(Lower(name))
        s2 == Replace(s1, " ", "-")
        s3 == StripSet(s2, {"-"})
        s4 == KeepSlugChars(s3)
    IN  SubRuns(s4, {"-"}, "-")

\* generate_slugs.py
GS_generate_slug(name) ==
    LET s1 == Strip(Lower(name))
        s2 == Replace(s1, " ", "-")
        s3 == KeepSlugChars(s2)
        s4 == SubRuns(s3, {"-"}, "-")
    IN  StripSet(s4, {"-"})

\* index.py
IDX_generate_slug(name) ==
    IF name = << >> THEN << >>
    ELSE LET s1 == Strip(Lower(name))
             s2 == SubRuns(s1, Whitespace, " ")
             s3 == SubRuns(s2, Whitespace \cup {"."}, "-")
             s4 == KeepSlugChars(s3)
             s5 == SubRuns(s4, {"-"}, "-")
         IN  StripSet(s5, {"-"})

-----------------------------------------------------------------------------
(* String constants of the code *)

STR_Name == << "N","a","m","e" >>
STR_Slug == << "S","l","u","g" >>
STR_PassURL == << "P","a","s","s"," ","U","R","L" >>
STR_name == << "n","a","m","e" >>
STR_slug == << "s","l","u","g" >>
STR_status == << "s","t","a","t","u","s" >>
STR_completed == << "c","o","m","p","l","e","t","e","d" >>
STR_pass == << "/","p","a","s","s","/" >>

\* the --base-url argument of a run, and SlugGenerator.base_url made of it
BaseUrlArg == << "h",":","/","/","x","/" >>
base_url == RStripSet(BaseUrlArg, {"/"})

\* generate_slugs.py
generate_pass_url(slug) == base_url \o STR_pass \o slug

None == << "<None>" >>
NoSummary == [ returned |-> FALSE ]

-----------------------------------------------------------------------------
(* Column resolution *)

\* generate_slugs.py: list.index(column_name) + 1, None (here 0) on ValueError
get_column_index(header_row, column_name) ==
    IF \E i \in 1..Len(header_row) : header_row[i] = column_name
    THEN CHOOSE i \in 1..Len(header_row) :
            /\ header_row[i] = column_name
            /\ \A j \in 1..(i-1) : header_row[j] # column_name
    ELSE 0

\* index.py: the loop over enumerate(headers) assigns at every matching cell,
\* so the binding left at the end is that of the last matching cell
header_loop_index(header_row, lower_name) ==
    LET hits == { i \in 1..Len(header_row) :
                    Lower(Strip(header_row[i])) = lower_name }
    IN  IF hits = {} THEN 0
        ELSE CHOOSE i \in hits : \A j \in hits : j <= i

\* The three bindings a run starts with
ResolveName(m, h) ==
    IF m = "url" THEN get_column_index(h, STR_Name)
    ELSE header_loop_index(h, STR_name)
ResolveSlug(m, h) ==
    IF m = "url" THEN get_column_index(h, STR_Slug)
    ELSE header_loop_index(h, STR_slug)
ResolveSec(m, h) ==
    IF m = "url" THEN get_column_index(h, STR_PassURL)
    ELSE header_loop_index(h, STR_status)

\* The header text of an added column
SlugHeader(m) == IF m = "url" THEN STR_Slug ELSE STR_slug
SecHeader(m) == IF m = "url" THEN STR_PassURL ELSE STR_status

-----------------------------------------------------------------------------
(* One data row *)

\* Faulty variant: the cell is read at index col, one to the right of the
\* column the write goes to
CurrentCell_OffByOne(r, col) ==
    IF Len(r) >= col + 1 THEN Strip(r[col + 1]) ELSE << >>

\* row[col - 1].strip() if len(row) >= col else ""
CurrentCell(r, col) == IF Len(r) >= col THEN Strip(r[col]) ELSE << >>

RowSlug(m, name) ==
    IF m = "url" THEN GS_generate_slug(name) ELSE IDX_generate_slug(name)

\* generate_slugs.py: the Pass URL cell is written when it differs
UrlPending(r, col, slug) ==
    IF CurrentCell(r, col) # generate_pass_url(slug)
    THEN << [ field |-> "url", c |-> col, v |-> generate_pass_url(slug) ] >>
    ELSE << >>

\* Faulty variant: the status is written whenever it is not already "completed",
\* also when the slug is empty
StatusPendingAnySlug(r, col, slug) ==
    IF Lower(CurrentCell(r, col)) # STR_completed
    THEN << [ field |-> "status", c |-> col, v |-> STR_completed ] >>
    ELSE << >>

\* index.py: new_status = "completed" if slug else "", written when it is
\* non-empty and differs from the current status in lower case
StatusPending(r, col, slug) ==
    LET current_status == CurrentCell(r, col)
        new_status == IF slug # << >> THEN STR_completed ELSE << >>
    IN  IF (current_status = << >> \/ Lower(current_status) # STR_completed)
           /\ new_status # << >>
           /\ Lower(current_status) # new_status
        THEN << [ field |-> "status", c |-> col, v |-> new_status ] >>
        ELSE << >>

\* Faulty variant: the slug cell is compared as fetched, without strip()
SlugPendingRaw(r, col, slug) ==
    IF (IF Len(r) >= col THEN r[col] ELSE << >>) # slug
    THEN << [ field |-> "slug", c |-> col, v |-> slug ] >>
    ELSE << >>

\* both files: the slug cell is written when it differs
SlugPending(r, col, slug) ==
    IF CurrentCell(r, col) # slug
    THEN << [ field |-> "slug", c |-> col, v |-> slug ] >>
    ELSE << >>

\* The cells of a row the code finds to differ, in the order it visits them
Pending(m, r, scol, xcol, slug) ==
    SlugPending(r, scol, slug)
    \o (IF m = "url" THEN UrlPending(r, xcol, slug)
        ELSE StatusPending(r, xcol, slug))

\* Faulty variant: a row with a pending write is marked "updated" in a dry run
\* too
OutcomeStatus_IgnoresDryRun(needs_update, dry) ==
    IF needs_update THEN "updated"
    ELSE IF dry THEN "would_update" ELSE "unchanged"

\* The dictionary appended to results for a row that raised nothing
OutcomeStatus(needs_update, dry) ==
    IF needs_update /\ ~dry THEN "updated"
    ELSE IF dry THEN "would_update" ELSE "unchanged"

Outcome(m, name, slug, needs_update, dry) ==
    IF m = "url"
    THEN [ name |-> name, slug |-> slug, url |-> generate_pass_url(slug),
           status |-> OutcomeStatus(needs_update, dry) ]
    ELSE [ name |-> name, slug |-> slug,
           status |-> OutcomeStatus(needs_update, dry) ]

\* The dictionary appended by the except branch
ErrorOutcome(m, name, msg) ==
    IF m = "url"
    THEN [ name |-> name, slug |-> None, url |-> None, status |-> "error",
           error |-> msg ]
    ELSE [ name |-> name, slug |-> None, status |-> "error", error |-> msg ]

-----------------------------------------------------------------------------
(* The inputs of a run *)

STR_A_b == << "A"," ","b" >>                 \* a name; its slug is a-b
STR_a_b == << "a","-","b" >>
STR_a_b_padded == << " ","a","-","b" >>      \* the slug a-b after a blank
STR_blank == << " " >>
STR_bang == << "!" >>                        \* a name whose slug is empty
STR_A_dot_b == << "A",".","b" >>             \* a name with a period
STR_x == << "x" >>                           \* neither a slug, a URL nor a status
STR_Completed == << "C","o","m","p","l","e","t","e","d" >>
STR_name_padded == << " ","n","a","m","e"," " >>
STR_passurl == << "p","a","s","s"," ","u","r","l" >>

\* What a sheet holds under a header cell: names under Name, slugs under
\* Slug, URLs under Pass URL, statuses under status
NameCells == { << >>, STR_blank, STR_A_b, STR_bang, STR_A_dot_b }
SlugCells == { << >>, STR_a_b, STR_a_b_padded, STR_x }
UrlCells == { << >>, generate_pass_url(STR_a_b), STR_x }
StatusCells == { << >>, STR_Completed, STR_x }
PoorCells == { << >>, STR_A_b }

CellsUnder(h) ==
    LET t == Lower(Strip(h))
    IN  IF t = STR_name THEN NameCells
        ELSE IF t = STR_slug THEN SlugCells
        ELSE IF t = STR_passurl THEN UrlCells
        ELSE IF t = STR_status THEN StatusCells
        ELSE PoorCells

SeqsUpTo(S, n) == UNION { [1..k -> S] : k \in 0..n }

\* Sequences of distinct elements of S
InjSeqs(S) ==
    { q \in SeqsUpTo(S, Cardinality(S)) :
        \A i, j \in 1..Len(q) : i # j => q[i] # q[j] }

\* Rows of k cells, the i-th drawn from what the sheet holds under h[i]
RECURSIVE RowsOfWidth(_, _)
RowsOfWidth(h, k) ==
    IF k = 0 THEN { << >> }
    ELSE { Append(r, c) : r \in RowsOfWidth(h, k - 1), c \in CellsUnder(h[k]) }

\* Header rows made of the mode's own column names, each at most once
OwnHeaders(m) ==
    IF m = "url" THEN InjSeqs({ STR_Name, STR_Slug, STR_PassURL })
    ELSE InjSeqs({ STR_Name, STR_slug, STR_status })

\* Header rows of up to MaxCols cells, with repeated names and names that
\* differ in case and blanks
HeaderCells == { STR_Name, STR_name_padded, STR_Slug, STR_PassURL, STR_status }
AnyHeaders == SeqsUpTo(HeaderCells, MaxCols)

\* The data rows the loop can meet: as wide as the fetched header at most
\* (headers has grown by one cell for each header write since the fetch)
FetchedWidth == Len(headers) - header_writes
Rows ==
    IF data = "stored" THEN { grid[row_idx] }
    ELSE IF data = "rich"
    THEN UNION { RowsOfWidth(headers, k) : k \in 0..FetchedWidth }
    ELSE SeqsUpTo(PoorCells, FetchedWidth)

\* What the stored sheet holds under a header cell
StoredCellsUnder(h) ==
    LET t == Lower(Strip(h))
    IN  IF t = STR_name THEN { STR_blank, STR_A_b, STR_bang }
        ELSE IF t = STR_slug THEN { STR_a_b, STR_x }
        ELSE IF t = STR_passurl THEN { generate_pass_url(STR_a_b), STR_x }
        ELSE IF t = STR_status THEN { STR_Completed, STR_x }
        ELSE PoorCells

RECURSIVE StoredRowsOfWidth(_, _)
StoredRowsOfWidth(h, k) ==
    IF k = 0 THEN { << >> }
    ELSE { Append(r, c) : r \in StoredRowsOfWidth(h, k - 1),
                          c \in StoredCellsUnder(h[k]) }

\* The data rows a stored sheet can hold under header h: of any width up to
\* that of h
StoredRows(h) == UNION { StoredRowsOfWidth(h, k) : k \in 0..Len(h) }

\* The header rows of the stored sheets: with and without the columns to
\* add, Name first or not, no Name at all, a column twice
StoredHeaders(m) ==
    { << STR_Name >>,
      << STR_Name, SlugHeader(m) >>,
      << SlugHeader(m), STR_Name, SecHeader(m) >>,
      << SecHeader(m), SlugHeader(m) >>,
      << STR_name_padded, SlugHeader(m), SlugHeader(m) >> }

SlugChars == { "a", "A", "1", " ", "\t", ".", "-", "!" }

-----------------------------------------------------------------------------
(* Initial states *)

InitRun ==
    /\ pc = "start"
    /\ headers = << >>
    /\ name_col = 0 /\ slug_col = 0 /\ sec_col = 0
    /\ row_idx = 0
    /\ row = << >>
    /\ processed = 0 /\ updated = 0 /\ errors = 0
    /\ results = << >>
    /\ header_writes = 0 /\ cell_writes = 0
    /\ row_writes = << >> /\ row_pending = << >> /\ row_failed = FALSE
    /\ summary = NoSummary
    /\ slug_gs = << >> /\ slug_idx = << >>
    /\ slug_gs_again = << >> /\ slug_idx_again = << >>

\* A sheet laid out for the mode, any data
Init ==
    /\ mode \in {"url", "status"}
    /\ dry_run \in BOOLEAN
    /\ data = "rich"
    /\ grid_rows \in 0..(MaxRows + 1)
    /\ sheet_header \in (IF grid_rows = 0 THEN { << >> } ELSE OwnHeaders(mode))
    /\ grid = << >> /\ prior_runs = << >>
    /\ slug_in = << >>
    /\ InitRun

\* Any header row, little data
InitCols ==
    /\ mode \in {"url", "status"}
    /\ dry_run \in BOOLEAN
    /\ data = "poor"
    /\ grid_rows \in 0..(MaxRows + 1)
    /\ sheet_header \in (IF grid_rows = 0 THEN { << >> } ELSE AnyHeaders)
    /\ grid = << >> /\ prior_runs = << >>
    /\ slug_in = << >>
    /\ InitRun

\* A name handed to both generate_slug
InitSlug ==
    /\ mode = "url" /\ dry_run = FALSE /\ data = "poor"
    /\ grid_rows = 0 /\ sheet_header = << >>
    /\ grid = << >> /\ prior_runs = << >>
    /\ InitRun
    /\ slug_in \in SeqsUpTo(SlugChars, MaxLen)

\* A sheet whose rows are kept, for a run followed by another
InitTwice ==
    /\ mode \in {"url", "status"}
    /\ dry_run \in BOOLEAN
    /\ data = "stored"
    /\ grid_rows \in 0..(MaxRows + 1)
    /\ sheet_header \in (IF grid_rows = 0 THEN { << >> }
                         ELSE StoredHeaders(mode))
    /\ grid \in (IF grid_rows = 0 THEN { << >> }
                 ELSE [ 1..(grid_rows - 1) -> StoredRows(sheet_header) ])
    /\ prior_runs = << >>
    /\ slug_in = << >>
    /\ InitRun

-----------------------------------------------------------------------------
(* process_students *)

run_vars == << mode, dry_run, data, grid_rows, prior_runs >>
slug_vars == << slug_in, slug_gs, slug_idx, slug_gs_again, slug_idx_again >>
row_vars == << row_idx, row, row_writes, row_pending, row_failed >>
count_vars == << processed, updated, errors, results >>
col_vars == << headers, name_col, slug_col, sec_col >>

\* all_values is empty: the short dictionary is returned
ReturnEmpty ==
    /\ pc = "start"
    /\ grid_rows = 0
    /\ summary' = [ processed |-> 0, updated |-> 0, errors |-> 0 ]
    /\ pc' = "done"
    /\ UNCHANGED << run_vars, slug_vars, row_vars, count_vars, col_vars,
                    sheet_header, header_writes, cell_writes, grid >>

\* headers = all_values[0] and the three lookups
ResolveColumns ==
    /\ pc = "start"
    /\ grid_rows > 0
    /\ headers' = sheet_header
    /\ name_col' = ResolveName(mode, sheet_header)
    /\ slug_col' = ResolveSlug(mode, sheet_header)
    /\ sec_col' = ResolveSec(mode, sheet_header)
    /\ pc' = "cols"
    /\ UNCHANGED << run_vars, slug_vars, row_vars, count_vars,
                    sheet_header, header_writes, cell_writes, grid, summary >>

\* raise Exception("'Name' column not found in the sheet")
RaiseNoName ==
    /\ pc = "cols"
    /\ name_col = 0
    /\ pc' = "raised"
    /\ UNCHANGED << run_vars, slug_vars, row_vars, count_vars, col_vars,
                    sheet_header, header_writes, cell_writes, grid, summary >>

\* Faulty variant: the slug column is added before the Name column is looked for
AddSlugColumn_BeforeNameCheck ==
    /\ pc = "cols"
    /\ slug_col = 0
    /\ headers' = Append(headers, SlugHeader(mode))
    /\ slug_col' = Len(headers) + 1
    /\ \E ok \in BOOLEAN :
        IF ok
        THEN /\ sheet_header' = headers'
             /\ header_writes' = header_writes + 1
             /\ pc' = "cols"
        ELSE /\ pc' = "raised"
             /\ UNCHANGED << sheet_header, header_writes >>
    /\ UNCHANGED << run_vars, slug_vars, row_vars, count_vars,
                    name_col, sec_col, cell_writes, grid, summary >>

\* Faulty variant: slug_col is taken from len(headers) before the append
AddSlugColumn_BindsOldWidth ==
    /\ pc = "cols"
    /\ name_col # 0
    /\ slug_col = 0
    /\ headers' = Append(headers, SlugHeader(mode))
    /\ slug_col' = Len(headers)
    /\ \E ok \in BOOLEAN :
        IF ok
        THEN /\ sheet_header' = headers'
             /\ header_writes' = header_writes + 1
             /\ pc' = "cols"
        ELSE /\ pc' = "raised"
             /\ UNCHANGED << sheet_header, header_writes >>
    /\ UNCHANGED << run_vars, slug_vars, row_vars, count_vars,
                    name_col, sec_col, cell_writes, grid, summary >>

\* headers.append(...); slug_col = len(headers); sheet.update('A1', [headers]).
\* The update call either writes row 1 or raises, which ends the run.
AddSlugColumn ==
    /\ pc = "cols"
    /\ name_col # 0
    /\ slug_col = 0
    /\ headers' = Append(headers, SlugHeader(mode))
    /\ slug_col' = Len(headers) + 1
    /\ \E ok \in BOOLEAN :
        IF ok
        THEN /\ sheet_header' = headers'
             /\ header_writes' = header_writes + 1
             /\ pc' = "cols"
        ELSE /\ pc' = "raised"
             /\ UNCHANGED << sheet_header, header_writes >>
    /\ UNCHANGED << run_vars, slug_vars, row_vars, count_vars,
                    name_col, sec_col, cell_writes, grid, summary >>

AddSecColumn ==
    /\ pc = "cols"
    /\ name_col # 0
    /\ slug_col # 0
    /\ sec_col = 0
    /\ headers' = Append(headers, SecHeader(mode))
    /\ sec_col' = Len(headers) + 1
    /\ \E ok \in BOOLEAN :
        IF ok
        THEN /\ sheet_header' = headers'
             /\ header_writes' = header_writes + 1
             /\ pc' = "cols"
        ELSE /\ pc' = "raised"
             /\ UNCHANGED << sheet_header, header_writes >>
    /\ UNCHANGED << run_vars, slug_vars, row_vars, count_vars,
                    name_col, slug_col, cell_writes, grid, summary >>

\* processed = 0 ... results = [], and the loop is entered
StartLoop ==
    /\ pc = "cols"
    /\ name_col # 0 /\ slug_col # 0 /\ sec_col # 0
    /\ processed' = 0 /\ updated' = 0 /\ errors' = 0 /\ results' = << >>
    /\ row_idx' = 1
    /\ pc' = "loop"
    /\ UNCHANGED << run_vars, slug_vars, col_vars, row, row_writes,
                    row_pending, row_failed, sheet_header, header_writes,
                    cell_writes, grid, summary >>

\* if not row or not row[name_col - 1]: continue;  if not name: continue
SkipRow ==
    /\ pc = "loop"
    /\ row_idx < grid_rows
    /\ \E r \in Rows :
        /\ r = << >> \/ (Len(r) >= name_col /\ Strip(r[name_col]) = << >>)
        /\ row' = r
    /\ row_idx' = row_idx + 1
    /\ pc' = "continue"
    /\ UNCHANGED << run_vars, slug_vars, col_vars, count_vars, row_writes,
                    row_pending, row_failed,
                    sheet_header, header_writes, cell_writes, grid, summary >>

\* row[name_col - 1] on a non-empty row shorter than name_col: IndexError,
\* raised outside the try block, so it leaves process_students
RowIndexError ==
    /\ pc = "loop"
    /\ row_idx < grid_rows
    /\ \E r \in Rows :
        /\ r # << >> /\ Len(r) < name_col
        /\ row' = r
    /\ row_idx' = row_idx + 1
    /\ pc' = "raised"
    /\ UNCHANGED << run_vars, slug_vars, col_vars, count_vars, row_writes,
                    row_pending, row_failed,
                    sheet_header, header_writes, cell_writes, grid, summary >>

\* The update_cell calls of a row: in dry-run none; otherwise either all the
\* pending ones succeed (k = 0) or the k-th raises after k - 1 succeeded
FailChoices(dry, pend) == IF dry THEN {0} ELSE 0..Len(pend)

Applied(dry, pend, k) ==
    IF dry THEN << >>
    ELSE IF k = 0 THEN pend ELSE SubSeq(pend, 1, k - 1)

\* sheet.update_cell(row, col, value) on one row of the sheet: the cell
\* takes the value, the cells the row lacked before it are empty
update_cell(r, col, value) ==
    [ i \in 1..(IF Len(r) >= col THEN Len(r) ELSE col) |->
        IF i = col THEN value ELSE IF i <= Len(r) THEN r[i] ELSE << >> ]

\* The row after the update_cell calls ws, in their order
RECURSIVE update_cells(_, _)
update_cells(r, ws) ==
    IF ws = << >> THEN r
    ELSE update_cells(update_cell(r, Head(ws).c, Head(ws).v), Tail(ws))

\* The try block of one row with a non-blank name
ProcessRow ==
    /\ pc = "loop"
    /\ row_idx < grid_rows
    /\ \E r \in Rows :
        /\ Len(r) >= name_col /\ Strip(r[name_col]) # << >>
        /\ row' = r
        /\ LET name == Strip(r[name_col])
               slug == RowSlug(mode, name)
               pend == Pending(mode, r, slug_col, sec_col, slug)
               needs_update == pend # << >>
           IN  \E k \in FailChoices(dry_run, pend) :
                /\ row_pending' = pend
                /\ row_writes' =
                      [ i \in 1..Len(Applied(dry_run, pend, k)) |->
                          [ r |-> row_idx + 1, c |-> pend[i].c, v |-> pend[i].v ] ]
                /\ cell_writes' = cell_writes + Len(Applied(dry_run, pend, k))
                /\ grid' = IF data = "stored"
                           THEN [ grid EXCEPT ![row_idx] =
                                    update_cells(r, Applied(dry_run, pend, k)) ]
                           ELSE grid
                /\ row_failed' = (k # 0)
                /\ IF k = 0
                   THEN /\ updated' = IF needs_update /\ ~dry_run
                                      THEN updated + 1 ELSE updated
                        /\ results' = Append(results,
                              Outcome(mode, name, slug, needs_update, dry_run))
                        /\ processed' = processed + 1
                        /\ UNCHANGED errors
                   ELSE /\ errors' = errors + 1
                        /\ results' = Append(results,
                              ErrorOutcome(mode, name, "APIError"))
                        /\ UNCHANGED << processed, updated >>
    /\ row_idx' = row_idx + 1
    /\ pc' = "continue"
    /\ UNCHANGED << run_vars, slug_vars, col_vars,
                    sheet_header, header_writes, summary >>

\* The body is over and the for statement is reached again: what the body
\* held of its row is dead
NextIteration ==
    /\ pc = "continue"
    /\ row' = << >>
    /\ row_writes' = << >> /\ row_pending' = << >> /\ row_failed' = FALSE
    /\ pc' = "loop"
    /\ UNCHANGED << run_vars, slug_vars, col_vars, count_vars, row_idx,
                    sheet_header, header_writes, cell_writes, grid, summary >>

\* the loop is over: the summary is returned
ReturnSummary ==
    /\ pc = "loop"
    /\ row_idx = grid_rows
    /\ summary' = [ processed |-> processed, updated |-> updated,
                    errors |-> errors, results |-> results ]
    /\ pc' = "done"
    /\ UNCHANGED << run_vars, slug_vars, row_vars, count_vars, col_vars,
                    sheet_header, header_writes, cell_writes, grid >>

Next ==
    \/ ReturnEmpty
    \/ ResolveColumns
    \/ RaiseNoName
    \/ AddSlugColumn
    \/ AddSecColumn
    \/ StartLoop
    \/ SkipRow
    \/ RowIndexError
    \/ ProcessRow
    \/ NextIteration
    \/ ReturnSummary

Spec == Init /\ [][Next]_vars

\* process_students is called again on the sheet a live run without errors
\* has left: everything local to the call starts afresh, the sheet stays
SecondRun ==
    /\ pc = "done"
    /\ data = "stored"
    /\ prior_runs = << >>
    /\ ~dry_run
    /\ summary.errors = 0
    /\ prior_runs' = << [ summary |-> summary,
                          header_writes |-> header_writes,
                          cell_writes |-> cell_writes ] >>
    /\ dry_run' \in BOOLEAN
    /\ pc' = "start"
    /\ headers' = << >>
    /\ name_col' = 0 /\ slug_col' = 0 /\ sec_col' = 0
    /\ row_idx' = 0
    /\ row' = << >>
    /\ processed' = 0 /\ updated' = 0 /\ errors' = 0
    /\ results' = << >>
    /\ header_writes' = 0 /\ cell_writes' = 0
    /\ row_writes' = << >> /\ row_pending' = << >> /\ row_failed' = FALSE
    /\ summary' = NoSummary
    /\ UNCHANGED << mode, data, grid_rows, slug_vars, sheet_header, grid >>

NextTwice ==
    \/ Next
    \/ SecondRun

SpecTwice == InitTwice /\ [][NextTwice]_vars

SpecCols == InitCols /\ [][Next]_vars

\* Both generate_slug applied to the name
DeriveSlugs ==
    /\ pc = "start"
    /\ slug_gs' = GS_generate_slug(slug_in)
    /\ slug_idx' = IDX_generate_slug(slug_in)
    /\ pc' = "slugged"
    /\ UNCHANGED << run_vars, slug_in, slug_gs_again, slug_idx_again,
                    row_vars, count_vars, col_vars,
                    sheet_header, header_writes, cell_writes, grid, summary >>

\* Each generate_slug applied to the slug it returned
DeriveAgain ==
    /\ pc = "slugged"
    /\ slug_gs_again' = GS_generate_slug(slug_gs)
    /\ slug_idx_again' = IDX_generate_slug(slug_idx)
    /\ pc' = "reslugged"
    /\ UNCHANGED << run_vars, slug_in, slug_gs, slug_idx,
                    row_vars, count_vars, col_vars,
                    sheet_header, header_writes, cell_writes, grid, summary >>

NextSlug ==
    \/ DeriveSlugs
    \/ DeriveAgain

SpecSlug == InitSlug /\ [][NextSlug]_vars

-----------------------------------------------------------------------------
(* What the properties speak of *)

\* The header row as it was fetched
FetchedHeader == SubSeq(headers, 1, FetchedWidth)

\* The loop body has just run on row
BodyDone == pc = "continue"

\* The row's Name cell is there and is not blank
NamedRow(r) == Len(r) >= name_col /\ Strip(r[name_col]) # << >>

\* A body that reached the try block: the outcome it appended
LastOutcome == results[Len(results)]

\* The cell of r in column col as fetched, and trimmed
RawCell(r, col) == IF Len(r) >= col THEN r[col] ELSE << >>
TrimmedCell(r, col) == Strip(RawCell(r, col))

\* No header cell is a Name column under any reading
NoNameColumn(h) == \A i \in 1..Len(h) : Lower(Strip(h[i])) # STR_name

-----------------------------------------------------------------------------
(* C1: in dry-run mode no write reaches the sheet: no header-row update    *)
(* and no update_cell call is issued, whatever the grid.                   *)
C1_DryRunWritesNothing ==
    dry_run => (header_writes = 0 /\ cell_writes = 0)

(* C2: the recorded status of a processed row is "updated" iff the run is  *)
(* live and a pending write was applied, "would_update" iff the run is     *)
(* dry-run and a pending write was identified, "unchanged" iff the row has *)
(* no pending write (live or dry-run), "error" iff a step failed.          *)
C2_StatusMatchesPending ==
    (BodyDone /\ NamedRow(row)) =>
        /\ Len(results) > 0
        /\ (LastOutcome.status = "error") <=> row_failed
        /\ ~row_failed =>
            /\ (LastOutcome.status = "updated")
                  <=> (~dry_run /\ row_writes # << >>)
            /\ (LastOutcome.status = "would_update")
                  <=> (dry_run /\ row_pending # << >>)
            /\ (LastOutcome.status = "unchanged") <=> (row_pending = << >>)

-----------------------------------------------------------------------------
\* The update_cell calls the URL reconciler owes a row, from the cells of the
\* row: cell(r, col) is how the current value of a cell is read
ExpectedUrlWrites(r, sheet_row, cell(_, _)) ==
    LET slug == GS_generate_slug(Strip(r[name_col]))
        url == base_url \o STR_pass \o slug
    IN  (IF cell(r, slug_col) # slug
         THEN << [ r |-> sheet_row, c |-> slug_col, v |-> slug ] >>
         ELSE << >>)
        \o (IF cell(r, sec_col) # url
            THEN << [ r |-> sheet_row, c |-> sec_col, v |-> url ] >>
            ELSE << >>)

\* A body of the URL reconciler in which no update_cell call raised writes
\* exactly owed, and records the status that goes with it
UrlRowAsOwed(owed) ==
    /\ Len(results) > 0
    /\ ~dry_run =>
        /\ row_writes = owed
        /\ owed = << >> => LastOutcome.status = "unchanged"
        /\ owed # << >> => LastOutcome.status = "updated"
    /\ dry_run =>
        /\ row_writes = << >>
        /\ Len(owed) = 2 => LastOutcome.status = "would_update"

C4_BlankRowSkipped ==
    [][ ( /\ pc = "loop" /\ pc' # "done"
          /\ (row' = << >> \/ Len(row') < name_col
                \/ Strip(row'[name_col]) = << >>) )
        => ( /\ pc' = "continue"
             /\ results' = results
             /\ processed' = processed /\ updated' = updated
             /\ errors' = errors
             /\ cell_writes' = cell_writes /\ header_writes' = header_writes )
      ]_vars

(* C5: a failure on one row never aborts the run: the row gets an "error"  *)
(* outcome carrying the message, the errors count grows by one for it and  *)
(* the loop goes on to the later rows.                                     *)
C5_RowFailureContained ==
    [][ ( /\ pc = "loop" /\ pc' # "done"
          /\ (row_failed' \/ (row' # << >> /\ Len(row') < name_col)) )
        => ( /\ pc' = "continue"
             /\ errors' = errors + 1
             /\ results' = Append(results, results'[Len(results')])
             /\ results'[Len(results')].status = "error"
             /\ results'[Len(results')].error = "APIError" )
      ]_vars

-----------------------------------------------------------------------------
\* The fetched header lacks the column
SlugColumnMissing == ResolveSlug(mode, FetchedHeader) = 0
SecColumnMissing == ResolveSec(mode, FetchedHeader) = 0
MissingColumns ==
    (IF SlugColumnMissing THEN 1 ELSE 0) + (IF SecColumnMissing THEN 1 ELSE 0)

FirstMatch(h, lower_name) ==
    LET hits == { i \in 1..Len(h) : Lower(Strip(h[i])) = lower_name }
    IN  IF hits = {} THEN 0 ELSE CHOOSE i \in hits : \A j \in hits : i <= j

(* C7: column resolution binds Name, Slug/slug, Pass URL and status to the *)
(* 1-based position of the first header cell whose trimmed text equals the *)
(* field name case-insensitively, in both reconcilers.                     *)
C7_FirstMatchIgnoringCase ==
    (pc = "cols" /\ header_writes = 0 /\ headers = sheet_header) =>
        /\ name_col = FirstMatch(headers, STR_name)
        /\ slug_col = FirstMatch(headers, STR_slug)
        /\ sec_col = FirstMatch(headers,
                        IF mode = "url" THEN STR_passurl ELSE STR_status)

(* C8: in status mode the only value written to the status column is       *)
(* "completed", and only for a row whose slug is not empty and whose       *)
(* current status is not "completed" in any letter case; a status cell is  *)
(* never cleared or reverted.                                              *)
C8_StatusOnlyCompleted ==
    (BodyDone /\ mode = "status" /\ NamedRow(row)) =>
        \A i \in 1..Len(row_writes) :
            row_writes[i].c = sec_col =>
                /\ row_writes[i].v = STR_completed
                /\ IDX_generate_slug(Strip(row[name_col])) # << >>
                /\ Lower(RawCell(row, sec_col)) # STR_completed

\* A status that read something else has been written "completed"
C8_Witness ==
    /\ BodyDone /\ mode = "status" /\ ~dry_run /\ NamedRow(row)
    /\ RawCell(row, sec_col) = STR_x
    /\ \E i \in 1..Len(row_writes) :
          row_writes[i].c = sec_col /\ row_writes[i].v = STR_completed

(* C9: if the header has no Name column, process_students raises before    *)
(* any row is taken: no header write, no cell write, no column appended,   *)
(* and no summary is returned.                                             *)
C9_NoNameAborts ==
    (pc # "start" /\ grid_rows > 0 /\ NoNameColumn(FetchedHeader)) =>
        /\ pc \in {"cols", "raised"}
        /\ pc = "cols" => ENABLED RaiseNoName
        /\ header_writes = 0 /\ cell_writes = 0
        /\ headers = sheet_header
        /\ row_idx = 0 /\ results = << >>
        /\ summary = NoSummary

\* The run has raised on a sheet with data rows and neither Name nor slug
C9_Witness ==
    /\ pc = "raised" /\ grid_rows > 1
    /\ NoNameColumn(FetchedHeader)
    /\ SlugColumnMissing
    /\ header_writes = 0

\* What C10 says of one slug made of the name
WellFormedSlug(slug, name) ==
    /\ \A i \in 1..Len(slug) : slug[i] \in SlugCharSet
    /\ \A i \in 1..(Len(slug) - 1) : ~(slug[i] = "-" /\ slug[i + 1] = "-")
    /\ slug # << >> => (slug[1] # "-" /\ slug[Len(slug)] # "-")
    /\ slug = << >> =>
          \A i \in 1..Len(name) : LowerChar(name[i]) \notin AlnumSet

(* C10: the output of either generate_slug holds only lowercase ASCII      *)
(* letters, digits and hyphens, no two hyphens in a row, no hyphen at      *)
(* either end, and is empty only if the lowered input has no ASCII letter  *)
(* or digit.                                                               *)
C10_SlugWellFormed ==
    pc = "slugged" =>
        /\ WellFormedSlug(slug_gs, slug_in)
        /\ WellFormedSlug(slug_idx, slug_in)

\* A name with a leading hyphen and two blanks in a row has been slugged
C10_Witness ==
    /\ pc = "slugged"
    /\ Len(slug_in) >= 4
    /\ slug_in[1] = "-"
    /\ \E i \in 1..(Len(slug_in) - 1) : slug_in[i] = " " /\ slug_in[i + 1] = " "
    /\ slug_gs # << >> /\ slug_idx # << >>

(* C11: generate_slug is idempotent: applied to the slug it returned for   *)
(* any input string, either implementation returns that slug again.        *)
C11_SlugIdempotent ==
    pc = "reslugged" =>
        /\ slug_gs_again = slug_gs
        /\ slug_idx_again = slug_idx

\* A name that both versions change (capital, blank, period, bang) has been
\* slugged twice
C11_Witness ==
    /\ pc = "reslugged"
    /\ slug_gs # << >> /\ slug_gs # slug_in
    /\ slug_idx # << >> /\ slug_idx # slug_in
    /\ \E i \in 1..Len(slug_in) : slug_in[i] = "!"
    /\ \E i \in 1..Len(slug_in) : slug_in[i] = "."
    /\ \E i \in 1..Len(slug_in) : slug_in[i] = "A"

\* A whitespace character or a period that stands between two letters or
\* digits of the name has left a hyphen in the slug
SeparatorsHyphenated(slug, name) ==
    (\E i \in 1..(Len(name) - 2) :
        /\ LowerChar(name[i]) \in AlnumSet
        /\ name[i + 1] \in Whitespace \cup {"."}
        /\ LowerChar(name[i + 2]) \in AlnumSet)
    => "-" \in Range(slug)

(* C12: the slug algorithm is applied uniformly: for every name the        *)
(* generate_slug of generate_slugs.py returns the slug the generate_slug   *)
(* of index.py returns, and in it every whitespace character (space, tab,  *)
(* newline) and every period has become a hyphen, so that 'A.Rupa' and     *)
(* 'a<TAB>b' are hyphenated and not merged into one token.                 *)
C12_SlugsAgree ==
    pc = "slugged" =>
        /\ slug_gs = slug_idx
        /\ SeparatorsHyphenated(slug_gs, slug_in)
        /\ SeparatorsHyphenated(slug_idx, slug_in)

\* The call of process_students under way is the second on this sheet
InSecondRun == prior_runs # << >>

NamesOfNamedRows ==
    LET named == SelectSeq(grid, NamedRow)
    IN  [ i \in 1..Len(named) |-> Strip(named[i][name_col]) ]

\* How many outcomes of rs satisfy the test
CountOutcomes(rs, Test(_)) == Cardinality({ i \in 1..Len(rs) : Test(rs[i]) })

IsError(o) == o.status = "error"
IsNotError(o) == o.status # "error"
IsUpdated(o) == o.status = "updated"

(* C14: at the end of every run on a non-empty grid the summary agrees     *)
(* with its outcome sequence: results holds exactly one outcome per data   *)
(* row with a non-blank name, in the rows' order; processed is the number  *)
(* of outcomes that are not "error", errors the number of "error"          *)
(* outcomes, updated the number of "updated" outcomes, so processed +      *)
(* errors = length of results and updated <= processed, and updated = 0 in *)
(* a dry run.                                                              *)
C14_SummaryConsistent ==
    (pc = "done" /\ grid_rows > 0) =>
        /\ Len(summary.results) = Len(NamesOfNamedRows)
        /\ \A i \in 1..Len(summary.results) :
              summary.results[i].name = NamesOfNamedRows[i]
        /\ summary.processed = CountOutcomes(summary.results, IsNotError)
        /\ summary.errors = CountOutcomes(summary.results, IsError)
        /\ summary.updated = CountOutcomes(summary.results, IsUpdated)
        /\ summary.processed + summary.errors = Len(summary.results)
        /\ summary.updated <= summary.processed
        /\ dry_run => summary.updated = 0

\* A run has ended on a sheet of two rows of different names, one whose
\* write failed and one updated
C14_Witness ==
    /\ pc = "done" /\ Len(grid) >= 2
    /\ Len(summary.results) = 2
    /\ summary.results[1].name # summary.results[2].name
    /\ summary.errors = 1 /\ summary.updated = 1
    /\ summary.results[1].status = "error"

====
